---- MODULE Spec2Model ----
(***************************************************************************)
(* A model of aiorgwadmin.rgw.RGWAdmin: the admin operations that build a  *)
(* path+query string, RGWAdmin.request (sign, pick a session, dispatch),   *)
(* RGWAdmin._load_request (decode the response, classify the error) and    *)
(* RGWAdmin.close.                                                         *)
(*                                                                         *)
(* Text (bodies, header keys and values, path+query strings) is a sequence *)
(* of tokens; Python values are tagged records.                            *)
(***************************************************************************)
EXTENDS Integers, Sequences, FiniteSets, TLC

(***************************************************************************)
(* Python values                                                           *)
(***************************************************************************)
PyNone == [t |-> "None"]
PyStr(s) == [t |-> "str", s |-> s]
PyInt(i) == [t |-> "int", i |-> i]
PyBool(b) == [t |-> "bool", b |-> b]
PyList(l) == [t |-> "list", l |-> l]
\* a dict is a set of <<key, value>> pairs with distinct keys
PyDict(d) == [t |-> "dict", d |-> d]

DictSet(d, k, v) == {p \in d : p[1] # k} \cup {<<k, v>>}
DictHas(d, k) == \E p \in d : p[1] = k
DictGet(d, k, default) ==
    IF DictHas(d, k) THEN (CHOOSE p \in d : p[1] = k)[2] ELSE default

(***************************************************************************)
(* Tokens of response text                                                 *)
(***************************************************************************)
LBRACE == [p |-> "{"]
RBRACE == [p |-> "}"]
LBRACK == [p |-> "["]
RBRACK == [p |-> "]"]
COLON == [p |-> ":"]
COMMA == [p |-> ","]
\* a double-quoted string literal
Q(s) == [q |-> s]
\* a number literal
N(n) == [n |-> n]
\* a bare word
W(w) == [w |-> w]

(***************************************************************************)
(* json.loads on a token sequence: scalars, lists, objects; a duplicate    *)
(* key keeps the last value; trailing text is an error.                    *)
(***************************************************************************)
RECURSIVE ParseValue(_), ParseElements(_, _), ParseMembers(_, _)

ParseFail == [ok |-> FALSE]
Parsed(v, rest) == [ok |-> TRUE, val |-> v, rest |-> rest]

ParseValue(toks) ==
    IF toks = <<>> THEN ParseFail
    ELSE LET h == Head(toks)
             r == Tail(toks)
         IN  IF "q" \in DOMAIN h THEN Parsed(PyStr(h.q), r)
             ELSE IF "n" \in DOMAIN h THEN Parsed(PyInt(h.n), r)
             ELSE IF h = W("null") THEN Parsed(PyNone, r)
             ELSE IF h = W("true") THEN Parsed(PyBool(TRUE), r)
             ELSE IF h = W("false") THEN Parsed(PyBool(FALSE), r)
             ELSE IF h = LBRACK
                  THEN IF r # <<>> /\ Head(r) = RBRACK
                       THEN Parsed(PyList(<<>>), Tail(r))
                       ELSE ParseElements(r, <<>>)
             ELSE IF h = LBRACE
                  THEN IF r # <<>> /\ Head(r) = RBRACE
                       THEN Parsed(PyDict({}), Tail(r))
                       ELSE ParseMembers(r, {})
             ELSE ParseFail

ParseElements(toks, acc) ==
    LET e == ParseValue(toks)
    IN  IF ~e.ok \/ e.rest = <<>> THEN ParseFail
        ELSE IF Head(e.rest) = COMMA
             THEN ParseElements(Tail(e.rest), Append(acc, e.val))
        ELSE IF Head(e.rest) = RBRACK
             THEN Parsed(PyList(Append(acc, e.val)), Tail(e.rest))
        ELSE ParseFail

ParseMembers(toks, acc) ==
    IF Len(toks) < 3 \/ "q" \notin DOMAIN toks[1] \/ toks[2] # COLON
    THEN ParseFail
    ELSE LET e == ParseValue(SubSeq(toks, 3, Len(toks)))
         IN  IF ~e.ok \/ e.rest = <<>> THEN ParseFail
             ELSE IF Head(e.rest) = COMMA
                  THEN ParseMembers(Tail(e.rest), DictSet(acc, toks[1].q, e.val))
             ELSE IF Head(e.rest) = RBRACE
                  THEN Parsed(PyDict(DictSet(acc, toks[1].q, e.val)), Tail(e.rest))
             ELSE ParseFail

JsonLoads(toks) ==
    LET r == ParseValue(toks)
    IN  IF r.ok /\ r.rest = <<>> THEN [ok |-> TRUE, val |-> r.val]
        ELSE [ok |-> FALSE]

(***************************************************************************)
(* The response decoder and the error classifier                           *)
(***************************************************************************)
OK == 200
NO_CONTENT == 204

\* the exception classes _load_request scans, in the order of the list
ErrorTable ==
    << "AccessDenied", "UserExists", "InvalidAccessKey",
       "InvalidKeyType", "InvalidSecretKey", "KeyExists", "EmailExists",
       "SubuserExists", "InvalidAccess", "InvalidArgument",
       "IndexRepairFailed", "BucketNotEmpty", "ObjectRemovalFailed",
       "BucketUnlinkFailed", "BucketLinkFailed", "NoSuchObject",
       "InvalidCap", "NoSuchCap", "NoSuchUser", "NoSuchBucket",
       "NoSuchKey", "IncompleteBody", "BucketAlreadyExists",
       "InternalError" >>

\* what a call ends with
Return(v) == [kind |-> "return", value |-> v]
Raise(exc, args) == [kind |-> "raise", exc |-> exc, args |-> args]
RaiseRGWAdminException(code, raw) ==
    [kind |-> "raise", exc |-> "RGWAdminException", args |-> <<PyStr(code)>>,
     raw |-> raw]

\* Python's str() of a value
Str(v) ==
    CASE v.t = "str" -> v.s
      [] v.t = "int" -> ToString(v.i)
      [] v.t = "None" -> "None"
      [] v.t = "bool" -> IF v.b THEN "True" ELSE "False"
      [] v.t = "list" -> ToString(v.l)
      [] v.t = "dict" -> ToString(v.d)

\* aiohttp's ClientResponse.json(content_type=None): a body that is empty
\* once stripped reads as None without an error; any other body goes to
\* json.loads, whose failure is a ValueError
ResponseJson(r) ==
    IF r.body = <<>> THEN [ok |-> TRUE, val |-> PyNone] ELSE JsonLoads(r.body)

\* '{' in k
HasBrace(k) == \E i \in 1..Len(k) : k[i] = LBRACE

\* s.split(sep)[0]
SplitFirst(s, sep) ==
    IF \E i \in 1..Len(s) : s[i] = sep
    THEN SubSeq(s, 1, (CHOOSE i \in 1..Len(s) :
                          s[i] = sep /\ \A m \in 1..(i - 1) : s[m] # sep) - 1)
    ELSE s

\* ":".join([k, v]).split('}')[0] + '}'
HeaderJsonString(k, v) == Append(SplitFirst(k \o <<COLON>> \o v, RBRACE), RBRACE)

\* the index of the header the loop stops at: the first whose key holds '{'
\* (0: there is none)
FirstBraceHeader(headers) ==
    IF \E i \in 1..Len(headers) : HasBrace(headers[i][1])
    THEN CHOOSE i \in 1..Len(headers) :
            /\ HasBrace(headers[i][1])
            /\ \A m \in 1..(i - 1) : ~HasBrace(headers[m][1])
    ELSE 0

HeaderFallbackSkipped(headers) == [ok |-> TRUE, val |-> PyNone]

\* the except branch: j = None, then the header loop; ok = FALSE when
\* json.load raises on the fragment
HeaderFallback(headers) ==
    LET i == FirstBraceHeader(headers)
    IN  IF i = 0 THEN [ok |-> TRUE, val |-> PyNone]
        ELSE JsonLoads(HeaderJsonString(headers[i][1], headers[i][2]))

ClassifyIn(table, code, j) ==
    IF \E i \in 1..Len(table) : table[i] = code
    THEN Raise(table[CHOOSE i \in 1..Len(table) :
                        table[i] = code /\ \A m \in 1..(i - 1) : table[m] # code],
               <<j>>)
    ELSE RaiseRGWAdminException(code, j)

ClassifyOffByOne(code, j) ==
    ClassifyIn(SubSeq(ErrorTable, 1, Len(ErrorTable) - 1), code, j)

\* the for loop over the exception classes and the raise after it
Classify(code, j) == ClassifyIn(ErrorTable, code, j)

StatusDispatchDefaultCode(status, j) ==
    IF status = OK THEN Return(j)
    ELSE IF status = NO_CONTENT THEN Return(PyNone)
    ELSE IF j = PyNone THEN Classify("InternalError", j)
    ELSE IF j.t # "dict" THEN Raise("AttributeError", <<>>)
    ELSE Classify(Str(DictGet(j.d, "Code", PyStr("InternalError"))), j)

\* the status branches, given the payload j
StatusDispatch(status, j) ==
    IF status = OK THEN Return(j)
    ELSE IF status = NO_CONTENT THEN Return(PyNone)
    ELSE IF j = PyNone THEN Raise("ServerDown", <<PyNone>>)
    ELSE IF j.t # "dict" THEN Raise("AttributeError", <<>>)
    ELSE Classify(Str(DictGet(j.d, "Code", PyStr("InternalError"))), j)

LoadRequestErrorFirst(r) ==
    LET body == ResponseJson(r)
    IN  IF body.ok /\ body.val.t = "dict" /\ DictHas(body.val.d, "Code")
        THEN Classify(Str(DictGet(body.val.d, "Code", PyNone)), body.val)
        ELSE IF body.ok THEN StatusDispatch(r.status, body.val)
        ELSE Raise("ServerDown", <<PyNone>>)

LoadRequest(r) ==
    LET body == ResponseJson(r)
        hdr == HeaderFallback(r.headers)
    IN  IF body.ok THEN StatusDispatch(r.status, body.val)
        ELSE IF ~hdr.ok THEN Raise("JSONDecodeError", <<>>)
        ELSE StatusDispatch(r.status, hdr.val)

(***************************************************************************)
(* Arguments and path+query text                                           *)
(***************************************************************************)
\* a str argument: its characters
Text(c) == [t |-> "str", c |-> c]

\* '%s' % v
Fmt(v) ==
    CASE v.t = "str" -> v.c
      [] v.t = "bool" -> IF v.b THEN <<"True">> ELSE <<"False">>
      [] v.t = "int" -> <<ToString(v.i)>>
      [] v.t = "None" -> <<"None">>

\* urllib.parse.quote of one character, safe='/'
QuoteChar(ch) ==
    CASE ch = " " -> "%20"
      [] ch = "&" -> "%26"
      [] ch = "=" -> "%3D"
      [] ch = "?" -> "%3F"
      [] ch = "%" -> "%25"
      [] OTHER -> ch

\* urllib.parse.quote
quote(v) == Text([i \in 1..Len(v.c) |-> QuoteChar(v.c[i])])

(***************************************************************************)
(* The client and its calls                                                *)
(***************************************************************************)
VARIABLES
    config,     \* _admin, _response, pool_connections: fixed at construction
    session,    \* self._session: "None", or a ClientSession "open" or "closed"
    teardowns,  \* how often a ClientSession.close() released the pooled session
    connection, \* the class attribute RGWAdmin.connection
    calls       \* the calls of admin operations, by call id

vars == <<config, session, teardowns, connection, calls>>

NoOutcome == [kind |-> "none"]
NoResponse == [status |-> 0, headers |-> <<>>, body |-> <<>>]

IdleCall ==
    [pc |-> "idle", op |-> "", args |-> {}, method |-> "", request |-> <<>>,
     headers |-> {}, data |-> PyNone, signed |-> 0, sent |-> 0,
     via |-> "none", adhoc |-> "none", response |-> NoResponse,
     outcome |-> NoOutcome]

\* S3Auth through requests' Request(...).prepare(): the caller's headers plus
\* the Date and Authorization headers; Content-Length when there is a body
Prepare(headers, data) ==
    headers \cup {<<"Date", "now">>, <<"Authorization", "AWS access_key:signature">>}
            \cup (IF data # PyNone
                  THEN {<<"Content-Length", ToString(Len(data.c))>>}
                  ELSE {})

\* a call that ends before request() is entered
raise(c, op, args, exc) ==
    /\ calls' = [calls EXCEPT ![c] =
                    [@ EXCEPT !.pc = "done", !.op = op, !.args = args,
                              !.outcome = exc]]
    /\ UNCHANGED <<config, session, teardowns, connection>>

requestReopens(c, op, args, method, req, headers, data) ==
    /\ calls' = [calls EXCEPT ![c] =
                    [@ EXCEPT !.op = op, !.args = args, !.method = method,
                              !.request = req,
                              !.headers = Prepare(headers, data),
                              !.data = data, !.signed = @ + 1,
                              !.pc = "await", !.sent = @ + 1,
                              !.via = IF session = "open" THEN "pool" ELSE "adhoc",
                              !.adhoc = IF session = "open" THEN "none" ELSE "open"]]
    /\ UNCHANGED <<config, session, teardowns, connection>>

\* RGWAdmin.request up to its first suspension: the request is signed, the
\* session is chosen and the HTTP request is handed to it. A ClientSession is
\* truthy open or closed; a closed one refuses with RuntimeError
request(c, op, args, method, req, headers, data) ==
    LET prepped == [calls[c] EXCEPT !.op = op, !.args = args, !.method = method,
                                    !.request = req,
                                    !.headers = Prepare(headers, data),
                                    !.data = data, !.signed = @ + 1]
    IN  /\ calls' = [calls EXCEPT ![c] =
                IF session # "None"
                THEN IF session = "closed"
                     THEN [prepped EXCEPT !.pc = "done", !.via = "pool",
                               !.outcome = Raise("RuntimeError",
                                                 <<PyStr("Session is closed")>>)]
                     ELSE [prepped EXCEPT !.pc = "await", !.via = "pool",
                                          !.sent = @ + 1]
                ELSE [prepped EXCEPT !.pc = "await", !.via = "adhoc",
                                     !.adhoc = "open", !.sent = @ + 1]]
        /\ UNCHANGED <<config, session, teardowns, connection>>

\* the response arrives: _load_request decides the call's result, and the
\* context managers release the response and close a session made for the call
Respond(c, r) ==
    /\ calls[c].pc = "await"
    /\ calls' = [calls EXCEPT ![c] =
                    [@ EXCEPT !.pc = "done", !.response = r,
                              !.outcome = LoadRequest(r),
                              !.adhoc = IF @ = "open" THEN "closed" ELSE @]]
    /\ UNCHANGED <<config, session, teardowns, connection>>

TransportFailRetries(c, exc) ==
    /\ calls[c].pc = "await"
    /\ calls' = [calls EXCEPT ![c] =
                    [@ EXCEPT !.headers = Prepare(@, calls[c].data),
                              !.signed = @ + 1, !.sent = @ + 1]]
    /\ UNCHANGED <<config, session, teardowns, connection>>

TransportFailLeaks(c, exc) ==
    /\ calls[c].pc = "await"
    /\ calls' = [calls EXCEPT ![c] =
                    [@ EXCEPT !.pc = "done", !.outcome = Raise(exc, <<>>)]]
    /\ UNCHANGED <<config, session, teardowns, connection>>

\* the transport fails or the timeout expires while the call waits
TransportFail(c, exc) ==
    /\ calls[c].pc = "await"
    /\ calls' = [calls EXCEPT ![c] =
                    [@ EXCEPT !.pc = "done", !.outcome = Raise(exc, <<>>),
                              !.adhoc = IF @ = "open" THEN "closed" ELSE @]]
    /\ UNCHANGED <<config, session, teardowns, connection>>

closeForgets ==
    /\ session' = "None"
    /\ teardowns' = IF session = "open" THEN teardowns + 1 ELSE teardowns
    /\ UNCHANGED <<config, calls, connection>>

\* RGWAdmin.close; ClientSession.close() releases an open session only
close ==
    /\ session' = IF session = "None" THEN "None" ELSE "closed"
    /\ teardowns' = IF session = "open" THEN teardowns + 1 ELSE teardowns
    /\ UNCHANGED <<config, calls, connection>>

\* the clients RGWAdmin.connection can name: this one, or one made by connect
ThisClient == [client |-> "self"]
NewClient(pool_connections) ==
    [client |-> "new",
     session |-> IF pool_connections THEN "open" ELSE "None"]

\* RGWAdmin.set_connection
set_connection(client) ==
    /\ connection' = client
    /\ UNCHANGED <<config, session, teardowns, calls>>

\* RGWAdmin.connect: a new RGWAdmin(**kwargs), with a session of its own when
\* it pools, becomes the class's connection
connect(pool_connections) == set_connection(NewClient(pool_connections))

(***************************************************************************)
(* The admin operations                                                    *)
(***************************************************************************)
metadata_types == <<"user", "bucket", "bucket.instance">>

\* '&'.join(['%s=%s' % (k, v) for k, v in params.items()])
RECURSIVE JoinParams(_)
JoinParams(params) ==
    IF params = <<>> THEN <<>>
    ELSE <<params[1][1], "=">> \o Fmt(params[1][2])
         \o (IF Len(params) > 1 THEN <<"&">> \o JoinParams(Tail(params)) ELSE <<>>)

_request_metadata(c, op, args, method, metadata_type, params, headers, data) ==
    IF \A i \in 1..Len(metadata_types) : metadata_types[i] # metadata_type
    THEN raise(c, op, args, Raise("Exception", <<PyStr("Bad metadata_type")>>))
    ELSE request(c, op, args, method,
                 <<"/", config.admin, "/metadata/", metadata_type, "?">>
                     \o JoinParams(params),
                 headers, data)

get_metadata(c, metadata_type, key, max_entries, marker) ==
    LET args == {<<"metadata_type", PyStr(metadata_type)>>, <<"key", key>>,
                 <<"max_entries", max_entries>>, <<"marker", marker>>}
        params == << <<"format", Text(<<config.response>>)>> >>
                  \o (IF key # PyNone THEN << <<"key", key>> >> ELSE <<>>)
                  \o (IF marker # PyNone
                      THEN << <<"marker", quote(marker)>> >> ELSE <<>>)
                  \o (IF max_entries # PyNone
                      THEN << <<"max-entries", max_entries>> >> ELSE <<>>)
    IN  /\ calls[c].pc = "idle"
        /\ _request_metadata(c, "get_metadata", args, "get", metadata_type,
                             params, {}, PyNone)

put_metadata(c, metadata_type, key, json_string) ==
    LET args == {<<"metadata_type", PyStr(metadata_type)>>, <<"key", key>>,
                 <<"json_string", json_string>>}
    IN  /\ calls[c].pc = "idle"
        /\ _request_metadata(c, "put_metadata", args, "put", metadata_type,
                             << <<"key", key>> >>,
                             {<<"Content-Type", "application/json">>},
                             json_string)

delete_metadata(c, metadata_type, key) ==
    LET args == {<<"metadata_type", PyStr(metadata_type)>>, <<"key", key>>}
    IN  /\ calls[c].pc = "idle"
        /\ _request_metadata(c, "delete_metadata", args, "delete",
                             metadata_type, << <<"key", key>> >>, {}, PyNone)

lock_metadata(c, metadata_type, key, lock_id, length) ==
    LET args == {<<"metadata_type", PyStr(metadata_type)>>, <<"key", key>>,
                 <<"lock_id", lock_id>>, <<"length", length>>}
        params == << <<"lock", Text(<<"lock">>)>>, <<"key", key>>,
                     <<"lock_id", lock_id>>, <<"length", length>> >>
    IN  /\ calls[c].pc = "idle"
        /\ _request_metadata(c, "lock_metadata", args, "post", metadata_type,
                             params, {}, PyNone)

unlock_metadata(c, metadata_type, key, lock_id) ==
    LET args == {<<"metadata_type", PyStr(metadata_type)>>, <<"key", key>>,
                 <<"lock_id", lock_id>>}
        params == << <<"unlock", Text(<<"unlock">>)>>, <<"key", key>>,
                     <<"lock_id", lock_id>> >>
    IN  /\ calls[c].pc = "idle"
        /\ _request_metadata(c, "unlock_metadata", args, "post", metadata_type,
                             params, {}, PyNone)

\* '&name=%s' % v when v is not None
Opt(name, v) == IF v # PyNone THEN <<"&", name, "=">> \o Fmt(v) ELSE <<>>

get_userUnchecked(c, uid, access_key, stats, sync) ==
    LET args == {<<"uid", uid>>, <<"access_key", access_key>>,
                 <<"stats", stats>>, <<"sync", sync>>}
        parameters == Opt("uid", uid) \o Opt("access-key", access_key)
                      \o <<"&", "stats", "=">> \o Fmt(stats)
                      \o <<"&", "sync", "=">> \o Fmt(sync)
    IN  /\ calls[c].pc = "idle"
        /\ request(c, "get_user", args, "get",
                   <<"/", config.admin, "/user", "?", "format", "=",
                     config.response>> \o parameters,
                   {}, PyNone)

get_user(c, uid, access_key, stats, sync) ==
    LET args == {<<"uid", uid>>, <<"access_key", access_key>>,
                 <<"stats", stats>>, <<"sync", sync>>}
        parameters == Opt("uid", uid) \o Opt("access-key", access_key)
                      \o <<"&", "stats", "=">> \o Fmt(stats)
                      \o <<"&", "sync", "=">> \o Fmt(sync)
    IN  /\ calls[c].pc = "idle"
        /\ IF uid # PyNone /\ access_key # PyNone
           THEN raise(c, "get_user", args,
                      Raise("ValueError",
                            <<PyStr("Only one of uid and access_key is allowed")>>))
           ELSE request(c, "get_user", args, "get",
                        <<"/", config.admin, "/user", "?", "format", "=",
                          config.response>> \o parameters,
                        {}, PyNone)

\* 'name=%s' % v and '&name=%s' % v
First(name, v) == <<name, "=">> \o Fmt(v)
Amp(name, v) == <<"&", name, "=">> \o Fmt(v)

\* '/%s/<resource>?format=%s%s' and '/%s/<resource>?<sub>&format=%s&%s'
Path(resource) == <<"/", config.admin, resource, "?", "format", "=", config.response>>
SubPath(resource, sub) ==
    <<"/", config.admin, resource, "?", sub, "&", "format", "=", config.response>>

get_users(c) == get_metadata(c, "user", PyNone, PyNone, PyNone)

create_user(c, uid, display_name, email, key_type, access_key, secret_key, user_caps, generate_key, max_buckets, suspended) ==
    LET args == {<<"uid", uid>>, <<"display_name", display_name>>,
                 <<"email", email>>, <<"key_type", key_type>>,
                 <<"access_key", access_key>>, <<"secret_key", secret_key>>,
                 <<"user_caps", user_caps>>, <<"generate_key", generate_key>>,
                 <<"max_buckets", max_buckets>>, <<"suspended", suspended>>}
        parameters == First("uid", uid) \o Amp("display-name", display_name)
                      \o Opt("email", email) \o Opt("key-type", key_type)
                      \o Opt("access-key", access_key)
                      \o Opt("secret-key", secret_key)
                      \o Opt("user-caps", user_caps)
                      \o Amp("generate-key", generate_key)
                      \o Opt("max-buckets", max_buckets)
                      \o Amp("suspended", suspended)
    IN  /\ calls[c].pc = "idle"
        /\ request(c, "create_user", args, "put",
                   Path("/user") \o <<"&">> \o parameters, {}, PyNone)

get_usage(c, uid, start, end, show_entries, show_summary) ==
    LET args == {<<"uid", uid>>, <<"start", start>>, <<"end", end>>,
                 <<"show_entries", show_entries>>,
                 <<"show_summary", show_summary>>}
        parameters == Opt("uid", uid) \o Opt("start", start) \o Opt("end", end)
                      \o Amp("show-entries", show_entries)
                      \o Amp("show-summary", show_summary)
    IN  /\ calls[c].pc = "idle"
        /\ request(c, "get_usage", args, "get", Path("/usage") \o parameters,
                   {}, PyNone)

trim_usage(c, uid, start, end, remove_all) ==
    LET args == {<<"uid", uid>>, <<"start", start>>, <<"end", end>>,
                 <<"remove_all", remove_all>>}
        parameters == Opt("uid", uid) \o Opt("start", start) \o Opt("end", end)
                      \o Amp("remove-all", remove_all)
    IN  /\ calls[c].pc = "idle"
        /\ request(c, "trim_usage", args, "delete",
                   Path("/usage") \o parameters, {}, PyNone)

modify_user(c, uid, display_name, email, key_type, access_key, secret_key, user_caps, generate_key, max_buckets, suspended) ==
    LET args == {<<"uid", uid>>, <<"display_name", display_name>>,
                 <<"email", email>>, <<"key_type", key_type>>,
                 <<"access_key", access_key>>, <<"secret_key", secret_key>>,
                 <<"user_caps", user_caps>>, <<"generate_key", generate_key>>,
                 <<"max_buckets", max_buckets>>, <<"suspended", suspended>>}
        parameters == First("uid", uid) \o Opt("display-name", display_name)
                      \o Opt("email", email) \o Opt("key-type", key_type)
                      \o Opt("access-key", access_key)
                      \o Opt("secret-key", secret_key)
                      \o Opt("user-caps", user_caps)
                      \o Amp("generate-key", generate_key)
                      \o Opt("max-buckets", max_buckets)
                      \o Opt("suspended", suspended)
    IN  /\ calls[c].pc = "idle"
        /\ request(c, "modify_user", args, "post",
                   Path("/user") \o <<"&">> \o parameters, {}, PyNone)

\* raise InvalidQuotaType: the class is raised bare, so it is constructed
\* without arguments
InvalidQuotaType == Raise("InvalidQuotaType", <<>>)

\* get_quota's body; also what get_user_quota and get_user_bucket_quota run
quota_request(c, op, uid, quota_type) ==
    LET args == {<<"uid", uid>>, <<"quota_type", PyStr(quota_type)>>}
        parameters == First("uid", uid) \o <<"&", "quota-type", "=", quota_type>>
    IN  /\ calls[c].pc = "idle"
        /\ IF quota_type \notin {"user", "bucket"}
           THEN raise(c, op, args, InvalidQuotaType)
           ELSE request(c, op, args, "get",
                        SubPath("/user", "quota") \o <<"&">> \o parameters,
                        {}, PyNone)

get_quota(c, uid, quota_type) == quota_request(c, "get_quota", uid, quota_type)

get_user_quota(c, uid) == quota_request(c, "get_user_quota", uid, "user")

get_user_bucket_quota(c, uid) ==
    quota_request(c, "get_user_bucket_quota", uid, "bucket")

\* str(enabled).lower()
StrLower(v) ==
    CASE v.t = "bool" -> IF v.b THEN <<"true">> ELSE <<"false">>
      [] OTHER -> Fmt(v)

_quota(max_size_kb, max_objects, enabled) ==
    Opt("max-size-kb", max_size_kb) \o Opt("max-objects", max_objects)
    \o (IF enabled # PyNone THEN <<"&", "enabled", "=">> \o StrLower(enabled)
        ELSE <<>>)

set_user_quota(c, uid, quota_type, max_size_kb, max_objects, enabled) ==
    LET args == {<<"uid", uid>>, <<"quota_type", PyStr(quota_type)>>,
                 <<"max_size_kb", max_size_kb>>, <<"max_objects", max_objects>>,
                 <<"enabled", enabled>>}
        parameters == First("uid", uid) \o <<"&", "quota-type", "=", quota_type>>
                      \o _quota(max_size_kb, max_objects, enabled)
    IN  /\ calls[c].pc = "idle"
        /\ IF quota_type \notin {"user", "bucket"}
           THEN raise(c, "set_user_quota", args, InvalidQuotaType)
           ELSE request(c, "set_user_quota", args, "put",
                        SubPath("/user", "quota") \o <<"&">> \o parameters,
                        {}, PyNone)

set_bucket_quota(c, uid, bucket, max_size_kb, max_objects, enabled) ==
    LET args == {<<"uid", uid>>, <<"bucket", bucket>>,
                 <<"max_size_kb", max_size_kb>>, <<"max_objects", max_objects>>,
                 <<"enabled", enabled>>}
        parameters == First("uid", uid) \o Amp("bucket", bucket)
                      \o _quota(max_size_kb, max_objects, enabled)
    IN  /\ calls[c].pc = "idle"
        /\ request(c, "set_bucket_quota", args, "put",
                   SubPath("/bucket", "quota") \o <<"&">> \o parameters,
                   {}, PyNone)

remove_user(c, uid, purge_data) ==
    LET args == {<<"uid", uid>>, <<"purge_data", purge_data>>}
        parameters == First("uid", uid) \o Amp("purge-data", purge_data)
    IN  /\ calls[c].pc = "idle"
        /\ request(c, "remove_user", args, "delete",
                   Path("/user") \o <<"&">> \o parameters, {}, PyNone)

\* str.lower() of one character run
LowerChar(ch) ==
    CASE ch = "S3" -> "s3"
      [] ch = "SWIFT" -> "swift"
      [] ch = "Swift" -> "swift"
      [] OTHER -> ch

\* key_type.lower()
lower(v) == [i \in 1..Len(v.c) |-> LowerChar(v.c[i])]

create_subuser(c, uid, subuser, secret_key, access_key, key_type, access, generate_secret) ==
    LET args == {<<"uid", uid>>, <<"subuser", subuser>>,
                 <<"secret_key", secret_key>>, <<"access_key", access_key>>,
                 <<"key_type", key_type>>, <<"access", access>>,
                 <<"generate_secret", generate_secret>>}
        parameters ==
            First("uid", uid) \o Opt("subuser", subuser)
            \o (IF secret_key # PyNone /\ access_key # PyNone
                THEN Amp("access-key", access_key) \o Amp("secret-key", secret_key)
                ELSE <<>>)
            \o (IF key_type # PyNone /\ lower(key_type) \in {<<"s3">>, <<"swift">>}
                THEN Amp("key-type", key_type) ELSE <<>>)
            \o Opt("access", access)
            \o Amp("generate-secret", generate_secret)
    IN  /\ calls[c].pc = "idle"
        /\ request(c, "create_subuser", args, "put",
                   SubPath("/user", "subuser") \o <<"&">> \o parameters,
                   {}, PyNone)

modify_subuser(c, uid, subuser, secret, key_type, access, generate_secret) ==
    LET args == {<<"uid", uid>>, <<"subuser", subuser>>, <<"secret", secret>>,
                 <<"key_type", key_type>>, <<"access", access>>,
                 <<"generate_secret", generate_secret>>}
        parameters == First("uid", uid) \o Amp("subuser", subuser)
                      \o Opt("secret", secret) \o Amp("key-type", key_type)
                      \o Opt("access", access)
                      \o Amp("generate-secret", generate_secret)
    IN  /\ calls[c].pc = "idle"
        /\ request(c, "modify_subuser", args, "post",
                   SubPath("/user", "subuser") \o <<"&">> \o parameters,
                   {}, PyNone)

remove_subuser(c, uid, subuser, purge_keys) ==
    LET args == {<<"uid", uid>>, <<"subuser", subuser>>,
                 <<"purge_keys", purge_keys>>}
        parameters == First("uid", uid) \o Amp("subuser", subuser)
                      \o Amp("purge-keys", purge_keys)
    IN  /\ calls[c].pc = "idle"
        /\ request(c, "remove_subuser", args, "delete",
                   SubPath("/user", "subuser") \o <<"&">> \o parameters,
                   {}, PyNone)

create_key(c, uid, subuser, key_type, access_key, secret_key, generate_key) ==
    LET args == {<<"uid", uid>>, <<"subuser", subuser>>,
                 <<"key_type", key_type>>, <<"access_key", access_key>>,
                 <<"secret_key", secret_key>>, <<"generate_key", generate_key>>}
        parameters == First("uid", uid) \o Opt("subuser", subuser)
                      \o Amp("key-type", key_type)
                      \o Opt("access-key", access_key)
                      \o Opt("secret-key", secret_key)
                      \o Amp("generate-key", generate_key)
    IN  /\ calls[c].pc = "idle"
        /\ request(c, "create_key", args, "put",
                   SubPath("/user", "key") \o <<"&">> \o parameters, {}, PyNone)

remove_key(c, access_key, key_type, uid, subuser) ==
    LET args == {<<"access_key", access_key>>, <<"key_type", key_type>>,
                 <<"uid", uid>>, <<"subuser", subuser>>}
        parameters == First("access-key", access_key)
                      \o Opt("key-type", key_type) \o Opt("uid", uid)
                      \o Opt("subuser", subuser)
    IN  /\ calls[c].pc = "idle"
        /\ request(c, "remove_key", args, "delete",
                   SubPath("/user", "key") \o <<"&">> \o parameters, {}, PyNone)

get_buckets(c) == get_metadata(c, "bucket", PyNone, PyNone, PyNone)

get_bucket(c, bucket, uid, stats) ==
    LET args == {<<"bucket", bucket>>, <<"uid", uid>>, <<"stats", stats>>}
        parameters == Opt("bucket", bucket) \o Opt("uid", uid)
                      \o Amp("stats", stats)
    IN  /\ calls[c].pc = "idle"
        /\ request(c, "get_bucket", args, "get", Path("/bucket") \o parameters,
                   {}, PyNone)

check_bucket_index(c, bucket, check_objects, fix) ==
    LET args == {<<"bucket", bucket>>, <<"check_objects", check_objects>>,
                 <<"fix", fix>>}
        parameters == First("bucket", bucket)
                      \o Amp("check-objects", check_objects) \o Amp("fix", fix)
    IN  /\ calls[c].pc = "idle"
        /\ request(c, "check_bucket_index", args, "get",
                   SubPath("/bucket", "index") \o <<"&">> \o parameters,
                   {}, PyNone)

remove_bucket(c, bucket, purge_objects) ==
    LET args == {<<"bucket", bucket>>, <<"purge_objects", purge_objects>>}
        parameters == First("bucket", bucket)
                      \o Amp("purge-objects", purge_objects)
    IN  /\ calls[c].pc = "idle"
        /\ request(c, "remove_bucket", args, "delete",
                   Path("/bucket") \o <<"&">> \o parameters, {}, PyNone)

unlink_bucket(c, bucket, uid) ==
    LET args == {<<"bucket", bucket>>, <<"uid", uid>>}
        parameters == First("bucket", bucket) \o Amp("uid", uid)
    IN  /\ calls[c].pc = "idle"
        /\ request(c, "unlink_bucket", args, "post",
                   Path("/bucket") \o <<"&">> \o parameters, {}, PyNone)

link_bucket(c, bucket, bucket_id, uid) ==
    LET args == {<<"bucket", bucket>>, <<"bucket_id", bucket_id>>,
                 <<"uid", uid>>}
        parameters == First("bucket", bucket) \o Amp("bucket-id", bucket_id)
                      \o Amp("uid", uid)
    IN  /\ calls[c].pc = "idle"
        /\ request(c, "link_bucket", args, "put",
                   Path("/bucket") \o <<"&">> \o parameters, {}, PyNone)

remove_object(c, bucket, object_name) ==
    LET args == {<<"bucket", bucket>>, <<"object_name", object_name>>}
        parameters == First("bucket", bucket) \o Amp("object", object_name)
    IN  /\ calls[c].pc = "idle"
        /\ request(c, "remove_object", args, "delete",
                   SubPath("/bucket", "object") \o <<"&">> \o parameters,
                   {}, PyNone)

get_policy(c, bucket, object_name) ==
    LET args == {<<"bucket", bucket>>, <<"object_name", object_name>>}
        parameters == First("bucket", bucket) \o Opt("object", object_name)
    IN  /\ calls[c].pc = "idle"
        /\ request(c, "get_policy", args, "get",
                   SubPath("/bucket", "policy") \o <<"&">> \o parameters,
                   {}, PyNone)

add_capability(c, uid, user_caps) ==
    LET args == {<<"uid", uid>>, <<"user_caps", user_caps>>}
        parameters == First("uid", uid) \o Amp("user-caps", user_caps)
    IN  /\ calls[c].pc = "idle"
        /\ request(c, "add_capability", args, "put",
                   SubPath("/user", "caps") \o <<"&">> \o parameters, {}, PyNone)

remove_capability(c, uid, user_caps) ==
    LET args == {<<"uid", uid>>, <<"user_caps", user_caps>>}
        parameters == First("uid", uid) \o Amp("user-caps", user_caps)
    IN  /\ calls[c].pc = "idle"
        /\ request(c, "remove_capability", args, "delete",
                   SubPath("/user", "caps") \o <<"&">> \o parameters, {}, PyNone)

get_bucket_instances(c) ==
    get_metadata(c, "bucket.instance", PyNone, PyNone, PyNone)

(***************************************************************************)
(* Inputs                                                                  *)
(***************************************************************************)
NumCalls == 2
MaxHeaders == 2

Range(f) == {f[i] : i \in DOMAIN f}

\* code strings a server may send: the table's, and some that are not
Codes == Range(ErrorTable) \cup {"WeirdCode", "nosuchkey", "NoSuchKeyX"}

Obj1(k, v) == <<LBRACE, Q(k), COLON, v, RBRACE>>

Bodies ==
    {Obj1("Code", Q(code)) : code \in Codes}
    \cup { <<>>,
           <<W("<html>")>>,
           <<W("null")>>,
           <<N(7)>>,
           <<Q("NoSuchKey")>>,
           <<LBRACE, RBRACE>>,
           Obj1("Code", N(404)),
           Obj1("Code", W("null")),
           Obj1("RequestId", Q("tx1")),
           <<LBRACE, Q("user_id"), COLON, Q("u1"), COMMA,
             Q("Code"), COLON, Q("AccessDenied"), RBRACE>>,
           <<LBRACK, LBRACE, Q("Code"), COLON, Q("NoSuchKey"), RBRACE, RBRACK>>,
           Obj1("Code", Q("NoSuchKey")) \o <<W("trailing")>> }

\* header lines: an ordinary one, and lines the server broke its error JSON into
HeaderLines ==
    { << <<W("Content-Type")>>, <<W("application/json")>> >>,
      << <<LBRACE, Q("Code")>>, <<Q("NoSuchKey"), RBRACE>> >>,
      << <<LBRACE, Q("Code")>>,
         <<Q("NoSuchKey"), RBRACE, W("trailing"), RBRACE>> >>,
      << <<LBRACE, Q("Code")>>,
         <<Q("AccessDenied"), COMMA, Q("RequestId"), COLON, Q("tx1"), RBRACE>> >>,
      << <<W("X-Debug"), LBRACE>>, <<W("x"), RBRACE>> >> }

HeaderLists ==
    UNION {[1..n -> HeaderLines] : n \in 0..MaxHeaders}

Statuses == {OK, NO_CONTENT, 404, 500}

Responses ==
    [status : Statuses, headers : HeaderLists, body : Bodies]

\* a few responses for the runs that are not about decoding
SomeResponses ==
    { [status |-> OK, headers |-> <<>>, body |-> <<LBRACE, RBRACE>>],
      [status |-> NO_CONTENT, headers |-> <<>>, body |-> <<>>],
      [status |-> 404, headers |-> <<>>, body |-> Obj1("Code", Q("NoSuchUser"))],
      [status |-> 500, headers |-> <<>>, body |-> <<W("<html>")>>] }

TransportErrors == {"ClientConnectionError", "TimeoutError"}

Configs(pools, formats) ==
    [admin : {"admin"}, response : formats, pool_connections : pools]

\* the state RGWAdmin.__init__ leaves
Constructed(cfg, ids) ==
    /\ config = cfg
    /\ session = IF cfg.pool_connections THEN "open" ELSE "None"
    /\ teardowns = 0
    /\ connection = [client |-> "unset"]
    /\ calls = [c \in ids |-> IdleCall]

U1 == Text(<<"u1">>)
AK == Text(<<"AK1">>)
False == PyBool(FALSE)
True == PyBool(TRUE)
Bools == {True, False}

(***************************************************************************)
(* SpecDecode: one call, every response of Responses                       *)
(***************************************************************************)
InitDecode == \E cfg \in Configs({FALSE}, {"json"}) : Constructed(cfg, {1})

NextDecode ==
    \/ \E c \in DOMAIN calls : get_user(c, U1, PyNone, False, False)
    \/ \E c \in {i \in DOMAIN calls : calls[i].pc = "await"}, r \in Responses :
          Respond(c, r)

SpecDecode == InitDecode /\ [][NextDecode]_vars

(***************************************************************************)
(* Spec: a client with or without a pooled session, concurrent calls,      *)
(* transport failures and close()                                          *)
(***************************************************************************)
Init == \E cfg \in Configs(BOOLEAN, {"json"}) : Constructed(cfg, 1..NumCalls)

Next ==
    \/ \E c \in DOMAIN calls, uid \in {PyNone, U1}, access_key \in {PyNone, AK} :
          get_user(c, uid, access_key, False, False)
    \/ \E c \in DOMAIN calls, mt \in {"bucket", "bucketttt"} :
          get_metadata(c, mt, PyNone, PyNone, PyNone)
    \/ \E c \in {i \in DOMAIN calls : calls[i].pc = "await"}, r \in SomeResponses :
          Respond(c, r)
    \/ \E c \in DOMAIN calls, exc \in TransportErrors : TransportFail(c, exc)
    \/ close
    \/ \E pool_connections \in BOOLEAN : connect(pool_connections)
    \/ set_connection(ThisClient)

Spec == Init /\ [][Next]_vars

(***************************************************************************)
(* Properties of the decoder and the classifier (SpecDecode)               *)
(***************************************************************************)
\* the call has received a response and _load_request has run on it
Decoded(c) == calls[c].pc = "done" /\ calls[c].response # NoResponse

\* the body is text that json refuses (r.json raises ValueError)
Unparseable(r) == r.body # <<>> /\ ~JsonLoads(r.body).ok

NoSuchKeyDescriptor == PyDict({<<"Code", PyStr("NoSuchKey")>>})

FailureStatus(r) == r.status # 200 /\ r.status # 204

\* C1: a response with status 200 whose body parses gives exactly the parsed
\* body as the call's result, whatever the body holds and whatever the headers
C1_Ok200ReturnsParsedBody ==
    \A c \in DOMAIN calls :
        LET r == calls[c].response
        IN  (Decoded(c) /\ r.status = 200 /\ JsonLoads(r.body).ok)
                => calls[c].outcome = Return(JsonLoads(r.body).val)

C1_Witness ==
    \E c \in DOMAIN calls :
        LET r == calls[c].response
        IN  /\ Decoded(c) /\ r.status = 200
            /\ r.body = Obj1("Code", Q("AccessDenied"))
            /\ FirstBraceHeader(r.headers) = 1
            /\ calls[c].outcome.kind = "return"

C3_NoPayloadIsServerDown ==
    \A c \in DOMAIN calls :
        LET r == calls[c].response
        IN  (Decoded(c) /\ Unparseable(r) /\ FirstBraceHeader(r.headers) = 0)
                => calls[c].outcome = Raise("ServerDown", <<PyNone>>)

\* C3 amended: the same for a status that is neither 200 nor 204
C3_NoPayloadFailureStatusIsServerDown ==
    \A c \in DOMAIN calls :
        LET r == calls[c].response
        IN  (/\ Decoded(c) /\ Unparseable(r) /\ FailureStatus(r)
             /\ \A i \in 1..Len(r.headers) : ~HasBrace(r.headers[i][1]))
                => calls[c].outcome = Raise("ServerDown", <<PyNone>>)

C3_Witness ==
    \E c \in DOMAIN calls :
        LET r == calls[c].response
        IN  /\ Decoded(c) /\ Unparseable(r) /\ r.status = 500
            /\ Len(r.headers) = 1 /\ ~HasBrace(r.headers[1][1])
            /\ calls[c].outcome.exc = "ServerDown"

TypedErrors == Range(ErrorTable) \cup {"RGWAdminException", "ServerDown"}

\* C4: a response whose status is neither 200 nor 204 ends the call with a
\* typed error (a table variant, RGWAdminException or ServerDown), whatever
\* the body and the headers
C4_FailureStatusRaisesTypedError ==
    \A c \in DOMAIN calls :
        (Decoded(c) /\ FailureStatus(calls[c].response))
            => /\ calls[c].outcome.kind = "raise"
               /\ calls[c].outcome.exc \in TypedErrors

Reverse(seq) == [i \in 1..Len(seq) |-> seq[Len(seq) + 1 - i]]

\* C5: with a failure status and an object payload, a code of the table
\* raises the variant of that name carrying the payload, any other code
\* raises RGWAdminException carrying the code and the payload; the table
\* names no code twice and scanning it in the other order gives the same
C5_ExactMatchDispatch ==
    /\ Cardinality(Range(ErrorTable)) = Len(ErrorTable)
    /\ \A c \in DOMAIN calls :
        LET r == calls[c].response
            j == JsonLoads(r.body)
        IN  (Decoded(c) /\ FailureStatus(r) /\ j.ok /\ j.val.t = "dict")
                => LET code == Str(DictGet(j.val.d, "Code", PyStr("InternalError")))
                   IN  /\ calls[c].outcome =
                            IF code \in Range(ErrorTable)
                            THEN Raise(code, <<j.val>>)
                            ELSE RaiseRGWAdminException(code, j.val)
                       /\ calls[c].outcome
                            = ClassifyIn(Reverse(ErrorTable), code, j.val)

C5_Witness ==
    \E c \in DOMAIN calls :
        /\ Decoded(c) /\ calls[c].response.status = 500
        /\ calls[c].response.body = Obj1("Code", Q("nosuchkey"))
        /\ calls[c].outcome.exc = "RGWAdminException"
        /\ calls[c].outcome.args = <<PyStr("nosuchkey")>>

\* C6: a response with status 204 gives None as the call's result, whatever
\* the body and the headers
C6_NoContentReturnsNone ==
    \A c \in DOMAIN calls :
        (Decoded(c) /\ calls[c].response.status = 204)
            => calls[c].outcome = Return(PyNone)

(***************************************************************************)
(* SpecOps: one call of any admin operation, over small argument sets, on a *)
(* client with or without a pooled session, before or after close()        *)
(***************************************************************************)
Opt1(v) == {PyNone, v}
OptBools == Bools \cup {PyNone}
MetadataTypeArgs == {"user", "bucket", "bucket.instance", "bucketttt"}
QuotaTypeArgs == {"user", "bucket", "object"}
Keys == {Text(<<"k1">>), Text(<<"default.345", " ", "-5">>)}
KeyTypes == {Text(<<"s3">>), Text(<<"SWIFT">>), Text(<<"ldap">>), PyNone}
B1 == Text(<<"b1">>)
SK == Text(<<"SK1">>)
Caps == Text(<<"usage", "=", "read">>)
Day == Text(<<"2024-01-01">>)

InitOps == \E cfg \in Configs(BOOLEAN, {"json", "xml"}) : Constructed(cfg, {1})

NextOps ==
    \/ \E c \in DOMAIN calls, mt \in MetadataTypeArgs, key \in Keys \cup {PyNone},
          n \in Opt1(PyInt(5)), marker \in Opt1(Text(<<"default.345", " ", "-5">>)) :
          get_metadata(c, mt, key, n, marker)
    \/ \E c \in DOMAIN calls, mt \in MetadataTypeArgs, key \in Keys :
          put_metadata(c, mt, key, Text(<<"{", "}">>))
    \/ \E c \in DOMAIN calls, mt \in MetadataTypeArgs, key \in Keys :
          delete_metadata(c, mt, key)
    \/ \E c \in DOMAIN calls, mt \in MetadataTypeArgs, key \in Keys :
          lock_metadata(c, mt, key, Text(<<"abc">>), PyInt(5))
    \/ \E c \in DOMAIN calls, mt \in MetadataTypeArgs, key \in Keys :
          unlock_metadata(c, mt, key, Text(<<"abc">>))
    \/ \E c \in DOMAIN calls, uid \in Opt1(U1), access_key \in Opt1(AK),
          stats \in Bools, sync \in Bools :
          get_user(c, uid, access_key, stats, sync)
    \/ \E c \in DOMAIN calls : get_users(c)
    \/ \E c \in DOMAIN calls, email \in Opt1(Text(<<"u1@example.com">>)),
          key_type \in {Text(<<"s3">>), PyNone}, access_key \in Opt1(AK),
          secret_key \in Opt1(SK), user_caps \in Opt1(Caps),
          generate_key \in Bools, max_buckets \in Opt1(PyInt(5)),
          suspended \in Bools :
          create_user(c, U1, Text(<<"User", " ", "One">>), email, key_type,
                      access_key, secret_key, user_caps, generate_key,
                      max_buckets, suspended)
    \/ \E c \in DOMAIN calls, uid \in Opt1(U1), start \in Opt1(Day),
          end \in Opt1(Day), show_entries \in Bools, show_summary \in Bools :
          get_usage(c, uid, start, end, show_entries, show_summary)
    \/ \E c \in DOMAIN calls, uid \in Opt1(U1), start \in Opt1(Day),
          end \in Opt1(Day), remove_all \in Bools :
          trim_usage(c, uid, start, end, remove_all)
    \/ \E c \in DOMAIN calls, display_name \in Opt1(Text(<<"User">>)),
          email \in Opt1(Text(<<"u1@example.com">>)),
          key_type \in {Text(<<"s3">>), PyNone}, access_key \in Opt1(AK),
          user_caps \in Opt1(Caps), generate_key \in Bools,
          max_buckets \in Opt1(PyInt(5)), suspended \in OptBools :
          modify_user(c, U1, display_name, email, key_type, access_key,
                      PyNone, user_caps, generate_key, max_buckets, suspended)
    \/ \E c \in DOMAIN calls, quota_type \in QuotaTypeArgs :
          get_quota(c, U1, quota_type)
    \/ \E c \in DOMAIN calls : get_user_quota(c, U1)
    \/ \E c \in DOMAIN calls : get_user_bucket_quota(c, U1)
    \/ \E c \in DOMAIN calls, quota_type \in QuotaTypeArgs,
          max_size_kb \in Opt1(PyInt(1024)), max_objects \in Opt1(PyInt(10)),
          enabled \in OptBools :
          set_user_quota(c, U1, quota_type, max_size_kb, max_objects, enabled)
    \/ \E c \in DOMAIN calls, max_size_kb \in Opt1(PyInt(1024)),
          max_objects \in Opt1(PyInt(10)), enabled \in OptBools :
          set_bucket_quota(c, U1, B1, max_size_kb, max_objects, enabled)
    \/ \E c \in DOMAIN calls, purge_data \in Bools : remove_user(c, U1, purge_data)
    \/ \E c \in DOMAIN calls, subuser \in Opt1(Text(<<"sub1">>)),
          secret_key \in Opt1(SK), access_key \in Opt1(AK),
          key_type \in KeyTypes, access \in Opt1(Text(<<"read">>)),
          generate_secret \in Bools :
          create_subuser(c, U1, subuser, secret_key, access_key, key_type,
                         access, generate_secret)
    \/ \E c \in DOMAIN calls, secret \in Opt1(SK), key_type \in KeyTypes,
          access \in Opt1(Text(<<"read">>)), generate_secret \in Bools :
          modify_subuser(c, U1, Text(<<"sub1">>), secret, key_type, access,
                         generate_secret)
    \/ \E c \in DOMAIN calls, purge_keys \in Bools :
          remove_subuser(c, U1, Text(<<"sub1">>), purge_keys)
    \/ \E c \in DOMAIN calls, subuser \in Opt1(Text(<<"sub1">>)),
          key_type \in KeyTypes, access_key \in Opt1(AK),
          secret_key \in Opt1(SK), generate_key \in Bools :
          create_key(c, U1, subuser, key_type, access_key, secret_key,
                     generate_key)
    \/ \E c \in DOMAIN calls, key_type \in KeyTypes, uid \in Opt1(U1),
          subuser \in Opt1(Text(<<"sub1">>)) :
          remove_key(c, AK, key_type, uid, subuser)
    \/ \E c \in DOMAIN calls : get_buckets(c)
    \/ \E c \in DOMAIN calls, bucket \in Opt1(B1), uid \in Opt1(U1),
          stats \in Bools :
          get_bucket(c, bucket, uid, stats)
    \/ \E c \in DOMAIN calls, check_objects \in Bools, fix \in Bools :
          check_bucket_index(c, B1, check_objects, fix)
    \/ \E c \in DOMAIN calls, purge_objects \in Bools :
          remove_bucket(c, B1, purge_objects)
    \/ \E c \in DOMAIN calls : unlink_bucket(c, B1, U1)
    \/ \E c \in DOMAIN calls : link_bucket(c, B1, Text(<<"default.345.1">>), U1)
    \/ \E c \in DOMAIN calls : remove_object(c, B1, Text(<<"o1">>))
    \/ \E c \in DOMAIN calls, object_name \in Opt1(Text(<<"o1">>)) :
          get_policy(c, B1, object_name)
    \/ \E c \in DOMAIN calls : add_capability(c, U1, Caps)
    \/ \E c \in DOMAIN calls : remove_capability(c, U1, Caps)
    \/ \E c \in DOMAIN calls : get_bucket_instances(c)
    \/ \E c \in {i \in DOMAIN calls : calls[i].pc = "await"}, r \in SomeResponses :
          Respond(c, r)
    \/ close

SpecOps == InitOps /\ [][NextOps]_vars

(***************************************************************************)
(* Properties of the session (Spec)                                        *)
(***************************************************************************)
SessionClosedError == Raise("RuntimeError", <<PyStr("Session is closed")>>)

\* C7: on a client constructed with pooling, a call that enters request()
\* when close() has completed ends with the session's "closed" error, opens
\* no session of its own and sends nothing
C7_ClosedSessionRejectsRequests ==
    [][\A c \in DOMAIN calls :
          (/\ config.pool_connections /\ session = "closed"
           /\ calls[c].pc = "idle" /\ calls'[c].signed = 1)
              => /\ calls'[c].pc = "done"
                 /\ calls'[c].outcome = SessionClosedError
                 /\ calls'[c].sent = 0
                 /\ calls'[c].adhoc = "none"
                 /\ calls'[c].via # "adhoc"]_vars

C7_Witness ==
    \E c \in DOMAIN calls :
        /\ config.pool_connections /\ session = "closed" /\ teardowns = 1
        /\ calls[c].signed = 1 /\ calls[c].sent = 0
        /\ calls[c].outcome = SessionClosedError

(***************************************************************************)
(* Properties of the admin operations (SpecOps)                            *)
(***************************************************************************)
\* the text after the first sep ("" when there is none)
AfterFirst(s, sep) ==
    IF \E i \in 1..Len(s) : s[i] = sep
    THEN SubSeq(s, Len(SplitFirst(s, sep)) + 2, Len(s))
    ELSE <<>>

RECURSIVE Split(_, _)
Split(s, sep) ==
    IF \E i \in 1..Len(s) : s[i] = sep
    THEN <<SplitFirst(s, sep)>> \o Split(AfterFirst(s, sep), sep)
    ELSE <<s>>

\* the name=value pairs of the query string of a path+query
QueryParams(req) ==
    LET segments == Split(AfterFirst(req, "?"), "&")
    IN  {<<SplitFirst(segments[i], "=")[1], AfterFirst(segments[i], "=")>> :
            i \in {n \in 1..Len(segments) :
                      /\ Len(SplitFirst(segments[n], "=")) = 1
                      /\ Len(SplitFirst(segments[n], "=")) < Len(segments[n])}}

QueryNames(req) ==
    LET segments == Split(AfterFirst(req, "?"), "&")
    IN  {SplitFirst(segments[i], "=") : i \in 1..Len(segments)}

MetadataOps ==
    {"get_metadata", "put_metadata", "delete_metadata", "lock_metadata",
     "unlock_metadata"}

\* C8: a metadata operation called with a type outside metadata_types ends
\* with InvalidArgument and nothing is signed or sent; with a type inside,
\* the call is not stopped by the validation
C8_MetadataTypeValidation ==
    \A c \in DOMAIN calls :
        calls[c].op \in MetadataOps
            => IF DictGet(calls[c].args, "metadata_type", PyNone).s
                      \in Range(metadata_types)
               THEN calls[c].signed = 1
               ELSE /\ calls[c].outcome.kind = "raise"
                    /\ calls[c].outcome.exc = "InvalidArgument"
                    /\ calls[c].signed = 0
                    /\ calls[c].sent = 0

\* C9: every request sent carries format=<the client's response encoding>
\* in its query string
C9_EveryRequestCarriesFormat ==
    \A c \in DOMAIN calls :
        calls[c].sent > 0
            => <<"format", <<config.response>> >> \in QueryParams(calls[c].request)

\* the query parameter an argument is sent as
QueryName(arg) ==
    CASE arg = "access_key" -> "access-key"
      [] arg = "secret_key" -> "secret-key"
      [] arg = "key_type" -> "key-type"
      [] arg = "display_name" -> "display-name"
      [] arg = "user_caps" -> "user-caps"
      [] arg = "generate_key" -> "generate-key"
      [] arg = "max_buckets" -> "max-buckets"
      [] arg = "max_entries" -> "max-entries"
      [] arg = "show_entries" -> "show-entries"
      [] arg = "show_summary" -> "show-summary"
      [] arg = "remove_all" -> "remove-all"
      [] arg = "max_size_kb" -> "max-size-kb"
      [] arg = "max_objects" -> "max-objects"
      [] arg = "purge_data" -> "purge-data"
      [] arg = "purge_keys" -> "purge-keys"
      [] arg = "purge_objects" -> "purge-objects"
      [] arg = "check_objects" -> "check-objects"
      [] arg = "generate_secret" -> "generate-secret"
      [] arg = "object_name" -> "object"
      [] OTHER -> arg

\* C10: in the path+query handed to request, an argument that is None has no
\* parameter and a boolean argument is rendered as 'true' or 'false'
C10_OmitNoneLowercaseBooleans ==
    \A c \in DOMAIN calls :
        calls[c].signed > 0
            => \A a \in calls[c].args :
                 /\ a[2] = PyNone
                      => <<QueryName(a[1])>> \notin QueryNames(calls[c].request)
                 /\ a[2].t = "bool"
                      => <<QueryName(a[1]), <<IF a[2].b THEN "true" ELSE "false">> >>
                            \in QueryParams(calls[c].request)

\* C11: in the path+query of a metadata operation, the key and the marker
\* appear percent-encoded (a space as %20)
C11_MetadataKeyAndMarkerAreQuoted ==
    \A c \in DOMAIN calls :
        (calls[c].op \in MetadataOps /\ calls[c].signed > 0)
            => \A a \in calls[c].args :
                 (a[1] \in {"key", "marker"} /\ a[2] # PyNone)
                     => <<a[1], quote(a[2]).c>> \in QueryParams(calls[c].request)

(***************************************************************************)
(* Properties of the sessions and of signing (Spec)                        *)
(***************************************************************************)
\* the call entered request()
Requested(c) == calls[c].signed > 0

\* C12: on a client without a pooled session, a call that is waiting for its
\* response holds its own open session with one request on it; a call that
\* has ended, however it ended, has closed the session it made; a call that
\* never entered request() made none; so with no call waiting no session made
\* for a call is open
C12_ScopedSessionRelease ==
    ~config.pool_connections =>
        /\ \A c \in DOMAIN calls :
            /\ calls[c].pc = "await"
                 => /\ calls[c].adhoc = "open" /\ calls[c].via = "adhoc"
                    /\ calls[c].sent = 1
            /\ (calls[c].pc = "done" /\ Requested(c))
                 => /\ calls[c].adhoc = "closed" /\ calls[c].via = "adhoc"
                    /\ calls[c].sent = 1
            /\ ~Requested(c) => calls[c].adhoc = "none"
        /\ Cardinality({c \in DOMAIN calls : calls[c].adhoc = "open"})
             = Cardinality({c \in DOMAIN calls : calls[c].pc = "await"})

C12_Witness ==
    /\ ~config.pool_connections
    /\ \E c, d \in DOMAIN calls :
        /\ calls[c].pc = "done" /\ calls[c].outcome = Raise("TimeoutError", <<>>)
        /\ calls[c].adhoc = "closed"
        /\ calls[d].pc = "await" /\ calls[d].adhoc = "open"

\* C13: a pooling client keeps the session made at construction: it is open
\* or closed, never absent; the only change it ever sees is open to closed,
\* made once, by close() alone (no call, no error, no connect or
\* set_connection touches it), and a repeated close() releases nothing more;
\* a client without pooling has no session and close() releases nothing
C13_PooledSessionLifecycle ==
    /\ [](IF config.pool_connections
          THEN /\ session \in {"open", "closed"}
               /\ teardowns = IF session = "closed" THEN 1 ELSE 0
          ELSE session = "None" /\ teardowns = 0)
    /\ [][\/ session' = session /\ teardowns' = teardowns
          \/ /\ session = "open" /\ session' = "closed"
             /\ teardowns' = teardowns + 1
             /\ calls' = calls /\ connection' = connection]_vars

C13_Witness ==
    /\ config.pool_connections /\ session = "closed" /\ teardowns = 1
    /\ connection.client = "new"
    /\ \E c, d \in DOMAIN calls :
        /\ calls[c].pc = "done" /\ calls[c].via = "pool"
        /\ calls[c].outcome = Raise("TimeoutError", <<>>)
        /\ calls[d].outcome = SessionClosedError

\* the sum of f over the calls
RECURSIVE SumOver(_, _)
SumOver(ids, f) ==
    IF ids = {} THEN 0
    ELSE LET c == CHOOSE i \in ids : TRUE
         IN  calls[c][f] + SumOver(ids \ {c}, f)

\* C14: a call that entered request() has signed once, and what it sent
\* carries that signature; it has sent one HTTP request at most, and none
\* without signing; while it waits and once it has ended (with a result, a
\* typed error, ServerDown, a transport failure or a timeout) it neither
\* signs nor sends again; so no more HTTP requests are sent than calls of
\* request() were started
C14_OneSignOneDispatch ==
    /\ [](/\ \A c \in DOMAIN calls :
              /\ calls[c].signed <= 1
              /\ calls[c].sent <= calls[c].signed
              /\ calls[c].sent > 0
                   => DictHas(calls[c].headers, "Authorization")
              /\ calls[c].pc = "await"
                   => calls[c].signed = 1 /\ calls[c].sent = 1
              /\ calls[c].pc = "idle"
                   => calls[c].signed = 0 /\ calls[c].sent = 0
          /\ SumOver(DOMAIN calls, "sent") <= SumOver(DOMAIN calls, "signed"))
    /\ [][\A c \in DOMAIN calls :
            calls[c].pc # "idle"
                => /\ calls'[c].signed = calls[c].signed
                   /\ calls'[c].sent = calls[c].sent
                   /\ calls[c].pc = "done" => calls'[c] = calls[c]]_vars

C14_Witness ==
    \E c, d \in DOMAIN calls :
        /\ calls[c].pc = "done" /\ calls[c].outcome.kind = "raise"
        /\ calls[c].outcome.exc = "ServerDown"
        /\ calls[c].signed = 1 /\ calls[c].sent = 1
        /\ calls[d].pc = "done"
        /\ calls[d].outcome = Raise("ClientConnectionError", <<>>)
        /\ calls[d].signed = 1 /\ calls[d].sent = 1

(***************************************************************************)
(* Argument validation outside metadata (SpecOps)                          *)
(***************************************************************************)
\* C15 as stated: get_quota and set_user_quota with a quota type outside
\* {'user', 'bucket'} end with InvalidQuotaType, and get_user with both uid
\* and access_key ends with ValueError, with nothing signed or sent; with
\* valid arguments each sends exactly one request
C15_ValidArgumentsSendOneRequest ==
    \A c \in DOMAIN calls :
        /\ calls[c].op \in {"get_quota", "set_user_quota"}
             => IF DictGet(calls[c].args, "quota_type", PyNone).s
                       \notin {"user", "bucket"}
                THEN /\ calls[c].pc = "done"
                     /\ calls[c].outcome = InvalidQuotaType
                     /\ calls[c].signed = 0 /\ calls[c].sent = 0
                ELSE calls[c].signed = 1 /\ calls[c].sent = 1
        /\ calls[c].op = "get_user"
             => IF /\ DictGet(calls[c].args, "uid", PyNone) # PyNone
                   /\ DictGet(calls[c].args, "access_key", PyNone) # PyNone
                THEN /\ calls[c].pc = "done"
                     /\ calls[c].outcome.kind = "raise"
                     /\ calls[c].outcome.exc = "ValueError"
                     /\ calls[c].signed = 0 /\ calls[c].sent = 0
                ELSE calls[c].signed = 1 /\ calls[c].sent = 1

\* what a call with valid arguments has done: entered request() once, and
\* sent one request unless the closed pooled session refused it
OneRequestCall(c) ==
    /\ calls[c].signed = 1
    /\ calls[c].sent = IF calls[c].outcome = SessionClosedError THEN 0 ELSE 1
    /\ calls[c].outcome = SessionClosedError
         => config.pool_connections /\ session = "closed"

\* C15 amended: the same, where a call with valid arguments makes exactly
\* one request() call, which sends exactly one request unless the client's
\* pooled session has been closed
C15_ValidationPrecedesNetwork ==
    \A c \in DOMAIN calls :
        /\ calls[c].op \in {"get_quota", "set_user_quota"}
             => IF DictGet(calls[c].args, "quota_type", PyNone).s
                       \notin {"user", "bucket"}
                THEN /\ calls[c].pc = "done"
                     /\ calls[c].outcome = InvalidQuotaType
                     /\ calls[c].signed = 0 /\ calls[c].sent = 0
                ELSE OneRequestCall(c)
        /\ calls[c].op = "get_user"
             => IF /\ DictGet(calls[c].args, "uid", PyNone) # PyNone
                   /\ DictGet(calls[c].args, "access_key", PyNone) # PyNone
                THEN /\ calls[c].pc = "done"
                     /\ calls[c].outcome.kind = "raise"
                     /\ calls[c].outcome.exc = "ValueError"
                     /\ calls[c].signed = 0 /\ calls[c].sent = 0
                ELSE OneRequestCall(c)

C15_Witness ==
    \E c \in DOMAIN calls :
        /\ calls[c].op = "set_user_quota"
        /\ DictGet(calls[c].args, "quota_type", PyNone) = PyStr("object")
        /\ calls[c].outcome = InvalidQuotaType
        /\ calls[c].request = <<>> /\ calls[c].sent = 0

====
